---- MODULE Spec2Model ----
(***************************************************************************)
(* A model of the photo-library web application in src/app.py: the login   *)
(* session, the filesystem store under DATA_DIR (library directories,      *)
(* photo files, one records.json per library), the request handlers, and   *)
(* the outbound analysis call made by upload_photo.                        *)
(*                                                                         *)
(* Text values (e-mail addresses, library IDs, file names) are sequences   *)
(* of one-character strings, so that strip(), lower(), the two regular     *)
(* expressions and secure_filename() are computed character by character.  *)
(* Requests are served concurrently (app.run, line 368, starts Flask's     *)
(* threaded server): an upload is a sequence of steps that interleave      *)
(* with the steps of other requests.                                       *)
(***************************************************************************)
EXTENDS Integers, Sequences, FiniteSets, TLC

----------------------------------------------------------------------------
(* Bounds of the model. *)

\* The clock runs over the seconds 0..MaxTime.
MaxTime == 1

----------------------------------------------------------------------------
(* Characters and strings. *)

Lower26 == <<"a","b","c","d","e","f","g","h","i","j","k","l","m",
             "n","o","p","q","r","s","t","u","v","w","x","y","z">>
Upper26 == <<"A","B","C","D","E","F","G","H","I","J","K","L","M",
             "N","O","P","Q","R","S","T","U","V","W","X","Y","Z">>
Digits == {"0","1","2","3","4","5","6","7","8","9"}
Range(s) == {s[i] : i \in DOMAIN s}
Letters == Range(Lower26) \cup Range(Upper26)
AlNum == Letters \cup Digits
\* What Python's str.strip() and the regex class \s take for white space.
WhiteSpace == {" ", "\t", "\n"}

\* str.lower() on one character, and on a string.
LowerChar(c) ==
    IF c \in Range(Upper26)
    THEN Lower26[CHOOSE i \in DOMAIN Upper26 : Upper26[i] = c]
    ELSE c
Lower(s) == [i \in DOMAIN s |-> LowerChar(s[i])]

\* str.strip(chars): the longest leading and trailing runs of chars removed.
StripChars(s, chars) ==
    LET keep == {i \in DOMAIN s : s[i] \notin chars}
    IN  IF keep = {} THEN <<>>
        ELSE LET lo == CHOOSE i \in keep : \A j \in keep : i <= j
                 hi == CHOOSE i \in keep : \A j \in keep : j <= i
             IN  SubSeq(s, lo, hi)
Strip(s) == StripChars(s, WhiteSpace)

\* A string of n copies of the character c.
Rep(c, n) == [i \in 1..n |-> c]

\* The strings a pattern ending in "$" is tried on: "$" matches at the end
\* of the string and also just before a final newline.
DollarEnds(s) ==
    {s} \cup (IF Len(s) > 0 /\ s[Len(s)] = "\n"
              THEN {SubSeq(s, 1, Len(s) - 1)} ELSE {})

----------------------------------------------------------------------------
(* The input-validation patterns. *)

\* The repetition bounds {2,31} of LIBRARY_ID_PATTERN.
LibIdTailMin == 2
LibIdTailMax == 31
LibIdTailChars == AlNum \cup {"_", "-"}

\* LIBRARY_ID_PATTERN.match(s): ^[A-Za-z0-9][A-Za-z0-9_-]{2,31}$
LIBRARY_ID_PATTERN(s) ==
    \E t \in DollarEnds(s) :
        /\ Len(t) >= 1
        /\ t[1] \in AlNum
        /\ Len(t) - 1 >= LibIdTailMin
        /\ Len(t) - 1 <= LibIdTailMax
        /\ \A i \in 2..Len(t) : t[i] \in LibIdTailChars

\* EMAIL_PATTERN.match(s): ^[^@\s]+@[^@\s]+\.[^@\s]+$
\* One "@", no white space, a non-empty local part, and after the "@" a "."
\* that is neither the first nor the last character.
EMAIL_PATTERN(s) ==
    \E t \in DollarEnds(s) :
        /\ \A i \in DOMAIN t : t[i] \notin WhiteSpace
        /\ \E a \in DOMAIN t :
              /\ t[a] = "@"
              /\ \A i \in DOMAIN t : t[i] = "@" => i = a
              /\ a > 1
              /\ \E d \in (a + 2)..(Len(t) - 1) : t[d] = "."

ALLOWED_EXTENSIONS ==
    { <<"j","p","g">>, <<"j","p","e","g">>, <<"p","n","g">>,
      <<"w","e","b","p">>, <<"h","e","i","c">> }

\* werkzeug's secure_filename: path separators become spaces, runs of white
\* space become one "_" (leading and trailing ones dropped), every character
\* outside [A-Za-z0-9_.-] is removed, and "." and "_" are stripped from both
\* ends.
FilenameChars == AlNum \cup {"_", ".", "-"}
RECURSIVE JoinWords(_)
JoinWords(s) ==
    IF s = <<>> THEN <<>>
    ELSE IF Head(s) \in WhiteSpace
         THEN IF Len(s) > 1 /\ s[2] \in WhiteSpace
              THEN JoinWords(Tail(s))
              ELSE <<"_">> \o JoinWords(Tail(s))
         ELSE <<Head(s)>> \o JoinWords(Tail(s))
secure_filename(s) ==
    LET spaced == [i \in DOMAIN s |-> IF s[i] = "/" THEN " " ELSE s[i]]
        joined == JoinWords(Strip(spaced))
        ascii  == SelectSeq(joined, LAMBDA c : c \in FilenameChars)
    IN  StripChars(ascii, {".", "_"})

\* filename.rsplit(".", 1)[-1].lower() if "." in filename else ""
Extension(filename) ==
    LET dots == {i \in DOMAIN filename : filename[i] = "."}
    IN  IF dots = {} THEN <<>>
        ELSE LET last == CHOOSE i \in dots : \A j \in dots : j <= i
             IN  Lower(SubSeq(filename, last + 1, Len(filename)))

----------------------------------------------------------------------------
(* Request inputs. *)

Clients == {"c1"}
\* The upload_photo requests that get past the handler's checks, in the
\* order of their arrival. Flask serves each on a thread of its own.
Requests == {"u1", "u2"}

\* Values of the login form's "email" field.
EmailInputs ==
    { <<" ","A","@","b",".","c","\n">>,       \* " A@b.c\n": stripped, lowered
      <<"x","@","y">>,                         \* no "." after the "@"
      <<"a"," ","@","b",".","c">>,             \* white space inside
      <<"a","@",".","c">>,                     \* "." right after the "@"
      <<>> }                                   \* field missing

\* Library IDs that pass create_library.
LibA == <<"A","-","_">>
LibB == <<"9">> \o Rep("z", 31)
\* DATA_DIR/"." is DATA_DIR itself and DATA_DIR/".." is BASE_DIR.
Dot == <<".">>
DotDot == <<".", ".">>

\* Values of the "library_id" form field of create_library.
LibIdInputs ==
    { LibA,
      <<" ">> \o LibA \o <<"\n">>,
      LibB,
      LibB \o <<"z">>,                         \* 33 characters
      <<"a","b">>,
      <<"_","a","b","c">>,
      <<"a","b",".">>,
      Dot, DotDot,
      <<>> }

\* Values of the <library_id> URL segment: any non-empty text without "/".
UrlLibIds == {LibA, LibB, Dot, DotDot}

\* The "photo" part of an upload: absent, or a file name with the image's
\* EXIF date text ("" when the image carries none).
NoPhotoPart == [present |-> FALSE, filename |-> <<>>, exif |-> ""]
PhotoInputs ==
    { [present |-> TRUE,                       \* "../b c.PNG"
       filename |-> <<".",".","/","b"," ","c",".","P","N","G">>,
       exif |-> "2020:01:02 03:04:05"],
      [present |-> TRUE, filename |-> <<"n",".","t","x","t">>, exif |-> ""],
      [present |-> TRUE, filename |-> <<".","j","p","g">>, exif |-> ""],
      [present |-> TRUE, filename |-> <<>>, exif |-> ""],
      NoPhotoPart }

\* The inputs' normal forms, computed once: the e-mail that login_submit
\* goes on with (line 46), the library ID that create_library goes on with
\* (line 85), the file name that upload_photo goes on with (line 149).
EmailOf == [raw \in EmailInputs |-> Lower(Strip(raw))]
LibraryIdOf == [raw \in LibIdInputs |-> Strip(raw)]
FilenameOf == [p \in PhotoInputs |-> secure_filename(p.filename)]
\* The inputs that pass the patterns (lines 47, 86 and 150-151).
EmailMatches == {raw \in EmailInputs : EMAIL_PATTERN(EmailOf[raw])}
LibraryIdMatches == {raw \in LibIdInputs : LIBRARY_ID_PATTERN(LibraryIdOf[raw])}
ExtensionAllowed ==
    {p \in PhotoInputs : Extension(FilenameOf[p]) \in ALLOWED_EXTENSIONS}

\* What the outbound call can come back with: an HTTP error status, a
\* timeout, a body without choices[0].message.content, a JSON list of
\* books, free text.
ApiOutcomes == {"http_error", "timeout", "bad_shape", "json_list", "text"}

----------------------------------------------------------------------------
(* State. *)

VARIABLES
    cookie,      \* cookie[c]: the session of client c
    dirs,        \* the library directories that exist under DATA_DIR
    files,       \* files[l]: the photo files stored in directory DATA_DIR/l
    recfile,     \* recfile[l]: the content of DATA_DIR/l/records.json
    req,         \* req[q]: upload request q, its position and its locals
    now,         \* the clock, in seconds
    apiKey,      \* whether OPENAI_API_KEY is set in the environment
    apiCalls,    \* the number of requests sent to the API so far
    hist,        \* hist[l]: the records dumped to l's records.json, newest first
    lastDump,    \* lastDump[l]: the array the latest dump to l wrote
    overlapReq,  \* overlapReq[l]: two uploads to l have been in progress at once
    overlapApp   \* overlapApp[l]: two _append_record calls on l have overlapped

store == <<dirs, files, recfile>>
history == <<hist, lastDump, overlapReq, overlapApp>>
vars == <<cookie, dirs, files, recfile, req, now, apiKey, apiCalls,
          hist, lastDump, overlapReq, overlapApp>>

NoSession == [has |-> FALSE, email |-> <<>>]
Session(email) == [has |-> TRUE, email |-> email]

\* records.json is missing, holds a JSON array, is empty (opened for writing
\* and not yet written), or holds text that json.load rejects.
Absent == [st |-> "absent", recs |-> <<>>]
Json(recs) == [st |-> "json", recs |-> recs]
Truncated == [st |-> "empty", recs |-> <<>>]
Corrupt == [st |-> "corrupt", recs |-> <<>>]

NoRecord == [filename |-> [sec |-> 0, name |-> <<>>], uploaded_at |-> 0,
             capture_date |-> "", analysis |-> [status |-> "", detail |-> ""]]
NewReq == [pc |-> "new", lib |-> <<>>, email |-> <<>>, exif |-> "",
           record |-> NoRecord, records |-> <<>>, calls |-> 0]

Init ==
    /\ cookie = [c \in Clients |-> NoSession]
    /\ dirs = {}
    /\ files = [l \in UrlLibIds |-> {}]
    /\ recfile = [l \in UrlLibIds |-> Absent]
    /\ req = [q \in Requests |-> NewReq]
    /\ now = 0
    /\ apiKey \in BOOLEAN
    /\ apiCalls = 0
    /\ hist = [l \in UrlLibIds |-> <<>>]
    /\ lastDump = [l \in UrlLibIds |-> Absent]
    /\ overlapReq = [l \in UrlLibIds |-> FALSE]
    /\ overlapApp = [l \in UrlLibIds |-> FALSE]

----------------------------------------------------------------------------
(* Helpers of the handlers. *)

\* What a handler answers: the kind of response and what it shows.
Response(kind, body) == [kind |-> kind, body |-> body]
NoBody == [none |-> TRUE]

\* (A guard that takes any session object, even an empty one, for a login.)
LoggedInAnySession(c) == cookie[c] \in {NoSession} \cup {Session(cookie[c].email)}
\* _require_login lets the request through: "email" in session.
LoggedIn(c) == cookie[c].has

\* library_path.exists(): DATA_DIR/"." and DATA_DIR/".." always exist.
Exists(l) == l \in dirs \cup {Dot, DotDot}

\* _library_list, and the listing of index: the directories under DATA_DIR
\* (the order of the page is not modelled).
LibraryList == dirs

\* _is_photo, on a stored file's name.
IsPhoto(name) == Extension(name.name) \in ALLOWED_EXTENSIONS

\* _photo_list, and the listing of library_detail (order not modelled).
PhotoList(l) == {n \in files[l] : IsPhoto(n)}

\* json.load raises on an empty or a damaged records.json.
Loadable(l) == recfile[l].st \in {"absent", "json"}
\* _load_records: [] when records.json is missing, its array otherwise.
LoadRecords(l) == IF recfile[l].st = "absent" THEN <<>> ELSE recfile[l].recs

\* _records_map: the dict built from the array keeps, for each file name,
\* the last record of that name in the array.
RecordsMap(l) ==
    LET recs == LoadRecords(l)
    IN  [n \in {recs[i].filename : i \in DOMAIN recs} |->
            recs[CHOOSE i \in DOMAIN recs :
                    /\ recs[i].filename = n
                    /\ \A j \in DOMAIN recs : recs[j].filename = n => j <= i]]

\* f"{timestamp.strftime('%Y%m%dT%H%M%SZ')}_{filename}": the timestamp's
\* second and the sanitized name. (The clock counts whole seconds; the
\* fraction of a second that uploaded_at also carries is not modelled.)
StoredName(t, filename) == [sec |-> t, name |-> filename]

\* _extract_capture_date: None ("") without an EXIF date or when strptime
\* rejects it, the date in ISO form otherwise.
ExtractCaptureDate(exif) ==
    CASE exif = "2020:01:02 03:04:05" -> "2020-01-02T03:04:05+00:00"
      [] OTHER -> ""

\* The result of _analyze_image for each way the call can end: the parsed
\* content (not modelled further) or the exception's text.
AnalysisOf(outcome) ==
    CASE outcome \in {"json_list", "text"} -> [status |-> "ok", detail |-> "data"]
      [] OTHER -> [status |-> "error", detail |-> "exception"]
Skipped == [status |-> "skipped", detail |-> "no api key"]

\* Request q has passed the checks and has not been answered yet.
InProgress(q) == req[q].pc \in {"saved", "calling", "analyzed", "loaded", "opened"}
\* Requests are numbered in the order of their arrival.
NextRequest == IF req["u1"].pc = "new" THEN "u1" ELSE "u2"
\* Request q is inside _append_record.
Appending(q) == req[q].pc \in {"loaded", "opened"}

----------------------------------------------------------------------------
(* The clock. *)

Tick ==
    /\ now < MaxTime
    /\ now' = now + 1
    /\ UNCHANGED <<cookie, store, req, apiKey, apiCalls, history>>

----------------------------------------------------------------------------
(* Login and logout. *)

login_form(c) ==
    /\ UNCHANGED vars

login_submit_response(raw) ==
    IF raw \notin EmailMatches
    THEN Response("form_error", NoBody)
    ELSE Response("redirect_index", NoBody)

login_submit(c, raw) ==
    LET email == EmailOf[raw]
    IN  /\ IF raw \notin EmailMatches
           THEN UNCHANGED cookie
           ELSE cookie' = [cookie EXCEPT ![c] = Session(email)]
        /\ UNCHANGED <<store, req, now, apiKey, apiCalls, history>>

logout(c) ==
    /\ cookie' = [cookie EXCEPT ![c] = NoSession]
    /\ UNCHANGED <<store, req, now, apiKey, apiCalls, history>>

----------------------------------------------------------------------------
(* The read-only pages: each answers from the current state and changes   *)
(* nothing.                                                                *)

index_response(c) ==
    IF ~LoggedIn(c) THEN Response("redirect_login", NoBody)
    ELSE Response("page", [libraries |-> LibraryList])

index(c) ==
    /\ UNCHANGED vars

library_detail_response(c, l) ==
    IF ~LoggedIn(c) THEN Response("redirect_login", NoBody)
    ELSE IF ~Exists(l) THEN Response("not_found", NoBody)
    ELSE IF ~Loadable(l) THEN Response("server_error", NoBody)
    ELSE Response("page", [photos |-> PhotoList(l),
                           records_by_name |-> RecordsMap(l)])

library_detail(c, l) ==
    /\ UNCHANGED vars

\* send_from_directory answers 404 for a file that is not in the directory.
uploaded_file_response(c, l, name) ==
    IF ~LoggedIn(c) THEN Response("redirect_login", NoBody)
    ELSE IF ~Exists(l) \/ name \notin files[l] THEN Response("not_found", NoBody)
    ELSE Response("file", [name |-> name])

uploaded_file(c, l, name) ==
    /\ UNCHANGED vars

----------------------------------------------------------------------------
(* create_library. *)

\* The checks of create_library, in the handler's order (lines 81-101).
CreateVerdict(c, raw) ==
    LET library_id == LibraryIdOf[raw]
    IN  IF ~LoggedIn(c) THEN "redirect_login"
        ELSE IF raw \notin LibraryIdMatches THEN "invalid_id"
        ELSE IF Exists(library_id) THEN "duplicate_id"
        ELSE "created"

create_library_response(c, raw) ==
    LET verdict == CreateVerdict(c, raw)
    IN  IF verdict \in {"invalid_id", "duplicate_id"}
        THEN Response(verdict, [libraries |-> LibraryList])
        ELSE Response(IF verdict = "created" THEN "redirect_library" ELSE verdict,
                      NoBody)

create_library(c, raw) ==
    /\ IF CreateVerdict(c, raw) = "created"
       THEN dirs' = dirs \cup {LibraryIdOf[raw]}
       ELSE UNCHANGED dirs
    /\ UNCHANGED <<cookie, files, recfile, req, now, apiKey, apiCalls, history>>

----------------------------------------------------------------------------
(* upload_photo. *)

\* The checks of upload_photo, in the handler's order (lines 134-159).
UploadVerdict(c, l, p) ==
    IF ~LoggedIn(c) THEN "redirect_login"
    ELSE IF ~Exists(l) THEN "not_found"
    ELSE IF ~p.present THEN "redirect_library"
    ELSE IF p.filename = <<>> THEN "redirect_library"
    ELSE IF p \notin ExtensionAllowed THEN "bad_extension"
    ELSE "accept"

\* The answer to a request that one of the checks turns away. The page
\* shown for a wrong extension reads the photo list and records.json.
upload_photo_rejected_response(c, l, p) ==
    LET verdict == UploadVerdict(c, l, p)
    IN  IF verdict # "bad_extension" THEN Response(verdict, NoBody)
        ELSE IF ~Loadable(l) THEN Response("server_error", NoBody)
        ELSE Response("bad_extension",
                      [photos |-> PhotoList(l), records_by_name |-> RecordsMap(l)])

\* (A handler that saves the file before it looks at the extension.)
upload_photo_rejected_after_save(c, l, p) ==
    /\ UploadVerdict(c, l, p) # "accept"
    /\ IF UploadVerdict(c, l, p) = "bad_extension"
       THEN /\ files' = [files EXCEPT ![l] =
                           @ \cup {StoredName(now, FilenameOf[p])}]
            /\ UNCHANGED <<cookie, dirs, recfile, req, now, apiKey, apiCalls,
                           history>>
       ELSE UNCHANGED vars

\* A request that one of the checks turns away.
upload_photo_rejected(c, l, p) ==
    /\ UploadVerdict(c, l, p) # "accept"
    /\ UNCHANGED vars

\* Lines 161-164: the request passed the checks; it takes the timestamp
\* and saves the file under the stored name.
upload_photo_save(c, q, l, p) ==
    LET filename == FilenameOf[p]
        stored_name == StoredName(now, filename)
    IN  /\ req[q].pc = "new"
        /\ q = NextRequest
        /\ UploadVerdict(c, l, p) = "accept"
        /\ files' = [files EXCEPT ![l] = @ \cup {stored_name}]
        /\ req' = [req EXCEPT ![q] =
                     [pc |-> "saved", lib |-> l, email |-> cookie[c].email,
                      exif |-> p.exif,
                      record |-> [filename |-> stored_name, uploaded_at |-> now,
                                  capture_date |-> "",
                                  analysis |-> [status |-> "", detail |-> ""]],
                      records |-> <<>>, calls |-> 0]]
        /\ overlapReq' = [overlapReq EXCEPT ![l] =
                            @ \/ \E o \in Requests \ {q} :
                                    InProgress(o) /\ req[o].lib = l]
        /\ UNCHANGED <<cookie, dirs, recfile, now, apiKey, apiCalls, hist,
                       lastDump, overlapApp>>

\* Lines 166-167 and 261-310: the capture date is read from the saved file;
\* without an API key the analysis is skipped, with one the request is sent.
upload_photo_analyze(q) ==
    LET r == req[q]
        dated == [r.record EXCEPT !.capture_date = ExtractCaptureDate(r.exif)]
    IN  /\ r.pc = "saved"
        /\ IF ~apiKey
           THEN /\ req' = [req EXCEPT ![q].pc = "analyzed",
                                      ![q].record = [dated EXCEPT !.analysis = Skipped]]
                /\ UNCHANGED apiCalls
           ELSE /\ req' = [req EXCEPT ![q].pc = "calling",
                                      ![q].record = dated,
                                      ![q].calls = r.calls + 1]
                /\ apiCalls' = apiCalls + 1
        /\ UNCHANGED <<cookie, store, now, apiKey, history>>

\* (A client that sends the request once more after a timeout.)
upload_photo_call_retry(q, outcome) ==
    /\ req[q].pc = "calling"
    /\ IF outcome = "timeout" /\ req[q].calls < 2
       THEN /\ req' = [req EXCEPT ![q].calls = @ + 1]
            /\ apiCalls' = apiCalls + 1
       ELSE /\ req' = [req EXCEPT ![q].pc = "analyzed",
                                  ![q].record.analysis = AnalysisOf(outcome)]
            /\ UNCHANGED apiCalls
    /\ UNCHANGED <<cookie, store, now, apiKey, history>>

\* Lines 311-318: the call ends in a response or in an exception, and
\* either way _analyze_image returns a dict.
upload_photo_call_return(q, outcome) ==
    /\ req[q].pc = "calling"
    /\ req' = [req EXCEPT ![q].pc = "analyzed",
                          ![q].record.analysis = AnalysisOf(outcome)]
    /\ UNCHANGED <<cookie, store, now, apiKey, apiCalls, history>>

\* (An _append_record that writes the new record alone.)
InsertAlone(record, records) == <<record>>
\* (An _append_record that puts the new record at the end.)
InsertBack(record, records) == records \o <<record>>
\* The array _append_record goes on to write: the new record in front of
\* the records it read (line 228).
InsertFront(record, records) == <<record>> \o records

\* Lines 227-228: _append_record reads records.json. json.load raises on a
\* file that another thread has opened for writing and not yet written, or
\* has damaged: the request then ends in an error, with its photo saved and
\* no record of it.
upload_photo_load(q) ==
    LET r == req[q]
    IN  /\ r.pc = "analyzed"
        /\ IF Loadable(r.lib)
           THEN /\ req' = [req EXCEPT ![q].pc = "loaded",
                                      ![q].records =
                                          InsertFront(r.record, LoadRecords(r.lib))]
                /\ overlapApp' = [overlapApp EXCEPT ![r.lib] =
                                    @ \/ \E o \in Requests \ {q} :
                                            Appending(o) /\ req[o].lib = r.lib]
           ELSE /\ req' = [req EXCEPT ![q].pc = "failed"]
                /\ UNCHANGED overlapApp
        /\ UNCHANGED <<cookie, store, now, apiKey, apiCalls, hist, lastDump,
                       overlapReq>>

\* Line 230: open(..., "w") creates records.json or cuts it to length 0.
upload_photo_open(q) ==
    LET r == req[q]
    IN  /\ r.pc = "loaded"
        /\ recfile' = [recfile EXCEPT ![r.lib] = Truncated]
        /\ req' = [req EXCEPT ![q].pc = "opened"]
        /\ UNCHANGED <<cookie, dirs, files, now, apiKey, apiCalls, history>>

\* What records.json holds after request q's json.dump and close. The text
\* is written from offset 0 of q's own handle. Onto a file still empty it
\* is the whole content. Onto text that another thread wrote after q opened
\* the file it replaces only its own length: the result is q's array when
\* q's text is at least as long, and q's text followed by the rest of the
\* other text (not JSON) when it is shorter. The lengths depend on the
\* records' texts, which the model leaves open.
DumpResults(l, records) ==
    IF recfile[l].st = "empty"
    THEN {Json(records)}
    ELSE {Json(records), Corrupt}

\* Lines 231 and 177: the array is written, and the request is answered
\* with a redirect to the library page.
upload_photo_dump(q) ==
    LET r == req[q]
    IN  /\ r.pc = "opened"
        /\ \E content \in DumpResults(r.lib, r.records) :
               recfile' = [recfile EXCEPT ![r.lib] = content]
        /\ req' = [req EXCEPT ![q].pc = "done", ![q].records = <<>>]
        /\ hist' = [hist EXCEPT ![r.lib] = <<r.record>> \o @]
        /\ lastDump' = [lastDump EXCEPT ![r.lib] = Json(r.records)]
        /\ UNCHANGED <<cookie, dirs, files, now, apiKey, apiCalls, overlapReq,
                       overlapApp>>

----------------------------------------------------------------------------
(* The system. *)

\* The names uploaded_file is asked for: the stored files and one more.
OtherName == [sec |-> 0, name |-> <<"x",".","p","n","g">>]
FileNames == UNION {files[l] : l \in UrlLibIds} \cup {OtherName}

Next ==
    \/ Tick
    \/ \E c \in Clients : login_form(c)
    \/ \E c \in Clients, raw \in EmailInputs : login_submit(c, raw)
    \/ \E c \in Clients : logout(c)
    \/ \E c \in Clients : index(c)
    \/ \E c \in Clients, l \in UrlLibIds : library_detail(c, l)
    \/ \E c \in Clients, l \in UrlLibIds, n \in FileNames : uploaded_file(c, l, n)
    \/ \E c \in Clients, raw \in LibIdInputs : create_library(c, raw)
    \/ \E c \in Clients, l \in UrlLibIds, p \in PhotoInputs :
          upload_photo_rejected(c, l, p)
    \/ \E c \in Clients, q \in Requests, l \in UrlLibIds, p \in PhotoInputs :
          upload_photo_save(c, q, l, p)
    \/ \E q \in Requests : upload_photo_analyze(q)
    \/ \E q \in Requests, outcome \in ApiOutcomes : upload_photo_call_return(q, outcome)
    \/ \E q \in Requests : upload_photo_load(q)
    \/ \E q \in Requests : upload_photo_open(q)
    \/ \E q \in Requests : upload_photo_dump(q)

Spec == Init /\ [][Next]_vars

----------------------------------------------------------------------------
(* Claims. *)

\* The sum of the outbound calls the upload requests have made.
RECURSIVE SumCalls(_)
SumCalls(qs) ==
    IF qs = {} THEN 0
    ELSE LET q == CHOOSE x \in qs : TRUE
         IN  req[q].calls + SumCalls(qs \ {q})

\* No upload to library l is in progress.
Quiet(l) == \A q \in Requests : InProgress(q) => req[q].lib # l
\* No _append_record call on library l is in progress.
NoAppend(l) == \A q \in Requests : Appending(q) => req[q].lib # l
\* Record r is an element of records.json of library l.
Recorded(l, r) ==
    /\ recfile[l].st = "json"
    /\ \E i \in DOMAIN recfile[l].recs : recfile[l].recs[i] = r

\* What a client without a session is answered by the library operations.
C1_AllRedirected(c) ==
    /\ index_response(c).kind = "redirect_login"
    /\ \A raw \in LibIdInputs :
          create_library_response(c, raw).kind = "redirect_login"
    /\ \A l \in UrlLibIds :
          /\ library_detail_response(c, l).kind = "redirect_login"
          /\ \A n \in FileNames :
                uploaded_file_response(c, l, n).kind = "redirect_login"
          /\ \A p \in PhotoInputs :
                /\ UploadVerdict(c, l, p) = "redirect_login"
                /\ upload_photo_rejected_response(c, l, p).kind = "redirect_login"
C1_State ==
    /\ \A c \in Clients :
          /\ cookie[c].has => EMAIL_PATTERN(cookie[c].email)
          /\ ~cookie[c].has => C1_AllRedirected(c)
    /\ \A q \in Requests : req[q].pc # "new" => EMAIL_PATTERN(req[q].email)
C1_Step ==
    /\ (dirs' # dirs \/ files' # files) =>
          \E c \in Clients : cookie[c].has /\ EMAIL_PATTERN(cookie[c].email)
    /\ recfile' # recfile =>
          \E q \in Requests : InProgress(q) /\ EMAIL_PATTERN(req[q].email)
    /\ \A c \in Clients :
          cookie'[c] # cookie[c] /\ cookie'[c].has =>
              \E raw \in EmailInputs :
                  /\ EMAIL_PATTERN(Lower(Strip(raw)))
                  /\ cookie'[c].email = Lower(Strip(raw))

\* C1: the library operations take effect only for a request whose session
\* holds an e-mail that login_submit stored after it matched EMAIL_PATTERN
\* and that logout has not cleared: a directory is created and a file is
\* saved only by a request of a logged-in client, records.json is written
\* only by an upload that was accepted from one, and a client without a
\* session is answered by every library operation with the redirect to the
\* login form, the store unchanged.
C1_OnlyAuthenticated == []C1_State /\ [][C1_Step]_vars

\* C1's case: a client that has logged out again, facing a library that
\* holds a photo and its record.
C1_Witness ==
    /\ ~cookie["c1"].has
    /\ LibA \in dirs
    /\ files[LibA] # {}
    /\ recfile[LibA].st = "json"

----------------------------------------------------------------------------

\* Every record once dumped to l's records.json is in the file.
C2_Kept(l) == \A i \in DOMAIN hist[l] : Recorded(l, hist[l][i])

\* C2, as claimed: also when uploads to a library overlap, a record once
\* written to its records.json is in every later array that the file
\* holds (the file being a JSON array, and no _append_record call on its
\* way to rewrite it).
C2_AppendOnly ==
    \A l \in dirs : NoAppend(l) /\ recfile[l].st = "json" => C2_Kept(l)

\* C2, amended: if no two _append_record calls on a library have
\* overlapped, every record once written to its records.json is in the
\* file, unchanged, whenever no _append_record call is rewriting it.
C2_AppendOnlySerial ==
    \A l \in UrlLibIds : ~overlapApp[l] /\ NoAppend(l) => C2_Kept(l)

\* C2's case: two uploads to one library were in progress at once, their
\* _append_record calls came one after the other, and both have written.
C2_Witness ==
    \E l \in UrlLibIds :
        /\ overlapReq[l] /\ ~overlapApp[l] /\ NoAppend(l)
        /\ Len(hist[l]) = 2
        /\ hist[l][1] # hist[l][2]

\* C3: after uploads to a library have overlapped and all of them have
\* finished, records.json holds exactly the array that the request that
\* wrote last dumped (its record in front of the array it had read).
C3_LastWriteWins ==
    \A l \in dirs :
        overlapReq[l] /\ Quiet(l) /\ hist[l] # <<>> => recfile[l] = lastDump[l]

\* The state and the order of the outbound calls of request q.
C4_Calls(q) ==
    LET r == req[q]
    IN  /\ r.pc \in {"new", "saved"} => r.calls = 0
        /\ r.pc = "calling" =>
              apiKey /\ r.calls = 1 /\ r.record.filename \in files[r.lib]
        /\ r.pc \in {"analyzed", "loaded", "opened", "done", "failed"} =>
              r.calls = (IF apiKey THEN 1 ELSE 0)
C4_State ==
    /\ \A q \in Requests : C4_Calls(q)
    /\ apiCalls = SumCalls(Requests)
C4_Step ==
    \A q \in Requests :
        /\ req'[q].calls # req[q].calls =>
              req[q].pc = "saved" /\ req[q].record.filename \in files[req[q].lib]
        /\ req'[q].pc # req[q].pc /\ req'[q].pc \in {"loaded", "opened", "done", "failed"} =>
              req[q].pc \in {"analyzed", "loaded", "opened"}

\* C4: an accepted upload makes exactly one outbound call when the API key
\* is set and none when it is not; the call is sent after the file is saved
\* and has returned before _append_record starts and the request is
\* answered; no call is made for a request that is turned away (the calls
\* made in all are those of the accepted uploads).
C4_OneCallPerUpload == []C4_State /\ [][C4_Step]_vars

\* C4's case: with the API key set, an upload whose call failed has been
\* answered, while a second one is waiting for its call to return.
C4_Witness ==
    /\ apiKey
    /\ req["u1"].pc = "done" /\ req["u1"].record.analysis.status = "error"
    /\ req["u2"].pc = "calling"
    /\ apiCalls = 2

\* C5: every upload accepted for an existing library has its photo stored,
\* and ends, whatever the outbound call came to, with the redirect to the
\* library page, its record appended and carrying the status "skipped",
\* "ok" or "error".
C5_BestEffort ==
    \A q \in Requests :
        /\ req[q].pc # "new" => req[q].record.filename \in files[req[q].lib]
        /\ req[q].pc \in {"done", "failed"} /\ req[q].lib \in dirs =>
              /\ req[q].pc = "done"
              /\ req[q].record.analysis.status \in {"skipped", "ok", "error"}
              /\ \E i \in DOMAIN hist[req[q].lib] :
                    hist[req[q].lib][i] = req[q].record

\* The rule of the rejection message: 3 to 32 characters, each an ASCII
\* letter, a digit, a hyphen or an underscore.
C6_MessageRule(id) ==
    /\ Len(id) >= 3
    /\ Len(id) <= 32
    /\ \A i \in DOMAIN id : id[i] \in AlNum \cup {"-", "_"}

\* C6: for a logged-in client and a stripped ID that is not in use,
\* create_library creates the directory exactly if the ID satisfies the
\* rule of the rejection message, and answers every other ID with that
\* message.
C6_IdRule ==
    \A c \in Clients, raw \in LibIdInputs :
        cookie[c].has /\ ~Exists(Strip(raw)) =>
            IF C6_MessageRule(Strip(raw))
            THEN CreateVerdict(c, raw) = "created"
            ELSE CreateVerdict(c, raw) = "invalid_id"

\* C7: a request that is rejected leaves the store as it was: a
\* create_library with an invalid ID or an ID in use, and an upload_photo
\* to a missing library, without a "photo" part, with an empty file name or
\* with an extension that is not allowed, create no directory, store no
\* file and leave every records.json unchanged: no step that changes the
\* store is the step of such a request.
C7_RejectedLeavesStore ==
    [][ \/ UNCHANGED store
        \/ /\ \A c \in Clients, raw \in LibIdInputs :
                  CreateVerdict(c, raw) \in {"invalid_id", "duplicate_id"}
                  => ~create_library(c, raw)
           /\ \A c \in Clients, l \in UrlLibIds, p \in PhotoInputs :
                  UploadVerdict(c, l, p) \in
                      {"not_found", "redirect_library", "bad_extension"}
                  => ~upload_photo_rejected(c, l, p) ]_vars

\* C7's case: a logged-in client, a library that holds a photo and its
\* record, and requests of each rejected kind.
C7_Witness ==
    \E c \in Clients :
        /\ files[LibA] # {} /\ recfile[LibA].st = "json"
        /\ CreateVerdict(c, LibA) = "duplicate_id"
        /\ CreateVerdict(c, <<"a","b">>) = "invalid_id"
        /\ UploadVerdict(c, LibB, NoPhotoPart) = "not_found"
        /\ UploadVerdict(c, LibA, NoPhotoPart) = "redirect_library"
        /\ \E p \in PhotoInputs : UploadVerdict(c, LibA, p) = "bad_extension"

\* C8: while the uploads to a library have not overlapped, and none is in
\* progress, its records.json is the array of the records of the accepted
\* uploads, one each, the newest first; each record's file name is the
\* second of its timestamp and a sanitized name. (An upload to one library
\* thus leaves the array of every other library as it was.)
C8_NewestFirst ==
    \A l \in UrlLibIds :
        ~overlapReq[l] /\ Quiet(l) =>
            /\ recfile[l] = (IF hist[l] = <<>> THEN Absent ELSE Json(hist[l]))
            /\ Len(hist[l]) =
                  Cardinality({q \in Requests : req[q].pc # "new" /\ req[q].lib = l})
            /\ \A i \in DOMAIN hist[l] :
                  /\ hist[l][i].filename.sec = hist[l][i].uploaded_at
                  /\ \E p \in PhotoInputs :
                        hist[l][i].filename.name = secure_filename(p.filename)
                  /\ hist[l][i].analysis.status \in {"skipped", "ok", "error"}

\* C8's case: two uploads to one library, one after the other and a second
\* apart.
C8_Witness ==
    \E l \in UrlLibIds :
        /\ ~overlapReq[l] /\ Quiet(l)
        /\ Len(hist[l]) = 2
        /\ hist[l][1].uploaded_at > hist[l][2].uploaded_at

\* C9: when no upload is in progress, in every library whose uploads have
\* run one after the other each stored photo has exactly one record of its
\* file name in records.json, and each record's file name is that of a
\* stored photo; so also for two uploads of one file name in one second.
C9_OneToOne ==
    (\A q \in Requests : ~InProgress(q)) =>
        \A l \in dirs :
            ~overlapReq[l] =>
            /\ Loadable(l)
            /\ \A n \in PhotoList(l) :
                  Cardinality({i \in DOMAIN LoadRecords(l) :
                                  LoadRecords(l)[i].filename = n}) = 1
            /\ \A i \in DOMAIN LoadRecords(l) :
                  LoadRecords(l)[i].filename \in PhotoList(l)

\* C10: a file is stored, and a records.json written, only in a directory
\* DATA_DIR/<library_id> whose library_id matches LIBRARY_ID_PATTERN.
C10_OnlyInLibraries ==
    \A l \in UrlLibIds :
        files[l] # {} \/ recfile[l].st # "absent" => LIBRARY_ID_PATTERN(l)

====
